---- MODULE Spec2Model ----
(***************************************************************************)
(* Webhook delivery and retry core of backend/server.js: the invoice table *)
(* client_smd.backend, the REST handlers that write it, sendWebhook, and   *)
(* the setInterval retry job.  Every await of the source is a step of its  *)
(* own, so deliveries started by the approve handler and by overlapping    *)
(* retry callbacks interleave as they do on the Node event loop.           *)
(***************************************************************************)
EXTENDS Integers, Sequences, FiniteSets, TLC

\* ---------------------------------------------------------------- bounds
NumInvoices == 1      \* invoice ids that exist in a behaviour
MaxHooks == 1         \* approval-time sendWebhook calls in flight at once
MaxSweeps == 2        \* retry-job callbacks in progress at once
PairInvoices == 2     \* rows of the table in PairSpec
PairRetries == 1      \* failures per invoice after which PairSpec's timer stops
MaxCounted == 3       \* accepted notifications are counted up to this number
MaxPermuted == 3      \* result sets up to this size come back in every order
BatchInvoices == 11   \* invoices of the table BatchSpec starts from

\* ------------------------------------------------------ program constants
MaxAttempts == 10     \* webhook_attempts < 10 in the retry query
BatchLimit == 10      \* LIMIT 10 in the retry query

NullInt == -1         \* SQL NULL in the integer column webhook_attempts
NULL == "NULL"        \* SQL NULL in a text column
Undefined == 0        \* result.rows[0] of an UPDATE that matched no row

InvoiceIds == 1..NumInvoices
HookIds == 1..MaxHooks
SweepIds == 1..MaxSweeps

StatusValues == {"created", "DRAFT", "APPROVED"}
PostOutcomes == {"ok", "transport", "serialization"}

\* What sendWebhook finds for the invoice's PDF: no pdf_url, a file it reads,
\* no file at the path, or a file whose read throws.
FileOutcomes == {"nourl", "read", "missing", "unreadable"}

VARIABLES
    WEBHOOK_URL,  \* TRUE iff process.env.WEBHOOK_URL is set
    db,           \* client_smd.backend: invoice id -> row
    hooks,        \* sendWebhook calls started by the approve handler
    sweeps,       \* callbacks of the setInterval retry job
    response,     \* the last answer of the approve handler, where it is recorded
    accepted,     \* per invoice, the notifications the destination accepted
                  \* since the invoice's last approval, where they are counted
    failures      \* per invoice, the failed posts whose FAILED update was
                  \* applied since the invoice's last approval, where counted

vars == <<WEBHOOK_URL, db, hooks, sweeps, response, accepted, failures>>

\* response and accepted are history variables: they record what leaves the
\* process and nothing reads them.  A specification records them only if its
\* initial state says so: response = "off" stays "off", and accepted counts
\* only the invoices of its domain.
Respond(status) == IF response = "off" THEN response ELSE status

Min(a, b) == IF a < b THEN a ELSE b

\* The destination accepted one more notification for invoice id.
CountAccepted(id) ==
    [i \in DOMAIN accepted |->
        IF i = id THEN Min(accepted[i] + 1, MaxCounted) ELSE accepted[i]]

\* The FAILED update for a failed post of invoice id has been applied.
CountFailed(id) ==
    [i \in DOMAIN failures |-> IF i = id THEN failures[i] + 1 ELSE failures[i]]

ResetFailures(id) ==
    [i \in DOMAIN failures |-> IF i = id THEN 0 ELSE failures[i]]

\* Invoice id has been approved again: its count starts over.
ResetAccepted(id) ==
    [i \in DOMAIN accepted |-> IF i = id THEN 0 ELSE accepted[i]]

\* ------------------------------------------------------------------ rows
AbsentRow ==
    [exists |-> FALSE, status |-> NULL,
     webhook_status |-> NULL, webhook_attempts |-> NullInt]

\* A row that was approved before webhook_attempts was maintained: the
\* retry query and the failure update both provide for a NULL counter.
LegacyRow ==
    [exists |-> TRUE, status |-> "APPROVED",
     webhook_status |-> "PENDING", webhook_attempts |-> NullInt]

COALESCE(v, d) == IF v = NullInt THEN d ELSE v

\* --------------------------------------------------------- sendWebhook
\* One call of sendWebhook: where it is suspended, the invoice it was given,
\* the exception its catch block holds, how the promise settled, and, while
\* the post is in flight, what was found for the PDF and the pdf_base64 of
\* the body.
NoCall ==
    [pc |-> "none", invoice |-> Undefined, err |-> "none", result |-> "none",
     file |-> "none", pdf_base64 |-> NULL]

Returned(inv, e, r) ==
    [pc |-> "done", invoice |-> inv, err |-> e, result |-> r,
     file |-> "none", pdf_base64 |-> NULL]

\* Mutant: no inner try/catch; a failing read throws into the outer catch.
ReadPdf_Throws(file) ==
    IF file = "read" THEN [threw |-> FALSE, pdfBase64 |-> "base64"]
    ELSE IF file = "unreadable" THEN [threw |-> TRUE, pdfBase64 |-> NULL]
    ELSE [threw |-> FALSE, pdfBase64 |-> NULL]

\* Lines 115-126: pdfBase64 starts as null and is set only when the file
\* exists and is read; an exception is caught at 123 and only logged.
ReadPdf(file) ==
    IF file = "read" THEN [threw |-> FALSE, pdfBase64 |-> "base64"]
    ELSE [threw |-> FALSE, pdfBase64 |-> NULL]

\* Lines 107-138: the synchronous prefix, up to the await of axios.post.
\* Given undefined, invoice.pdf_url throws inside the try and invoice.id throws
\* again inside the catch, so the promise rejects.
sendWebhook(invoice, file) ==
    IF ~WEBHOOK_URL THEN Returned(invoice, "none", "false")
    ELSE IF invoice = Undefined THEN Returned(invoice, "type", "rejected")
    ELSE IF ReadPdf(file).threw
    THEN [pc |-> "updateFailed", invoice |-> invoice, err |-> "file", result |-> "none",
          file |-> "none", pdf_base64 |-> NULL]
    ELSE [pc |-> "post", invoice |-> invoice, err |-> "none", result |-> "none",
          file |-> file, pdf_base64 |-> ReadPdf(file).pdfBase64]

\* Line 129: axios.post settles; on success the SENT update is issued (140),
\* otherwise control enters the catch block and the FAILED update is issued (148).
PostSettled(call, outcome) ==
    IF outcome = "ok"
    THEN [call EXCEPT !.pc = "updateSent", !.file = "none", !.pdf_base64 = NULL]
    ELSE [call EXCEPT !.pc = "updateFailed", !.err = outcome,
                      !.file = "none", !.pdf_base64 = NULL]

\* Mutant: the SENT update also clears the counter.
UpdateSentRow_ClearsAttempts(row) ==
    [row EXCEPT !.webhook_status = "SENT", !.webhook_attempts = 0]

\* Lines 140-143.
UpdateSentRow(row) == [row EXCEPT !.webhook_status = "SENT"]

\* Mutant: the increment without COALESCE; NULL + 1 is NULL in SQL.
UpdateFailedRow_NoCoalesce(row) ==
    [row EXCEPT !.webhook_status = "FAILED",
                !.webhook_attempts = IF row.webhook_attempts = NullInt THEN NullInt
                                     ELSE row.webhook_attempts + 1]

\* Lines 148-151.
UpdateFailedRow(row) ==
    [row EXCEPT !.webhook_status = "FAILED",
                !.webhook_attempts = COALESCE(row.webhook_attempts, 0) + 1]

\* Mutant: the UPDATE without its WHERE clause; every row takes the outcome.
ApplyUpdate_NoWhere(table, id, newRow) ==
    [i \in DOMAIN table |->
        IF table[i].exists
        THEN [table[i] EXCEPT !.webhook_status = newRow.webhook_status,
                              !.webhook_attempts = newRow.webhook_attempts]
        ELSE table[i]]

\* UPDATE ... WHERE id = $1 applied to the table: newRow where the row exists.
ApplyUpdate(table, id, newRow) ==
    [table EXCEPT ![id] = IF table[id].exists THEN newRow ELSE table[id]]

\* Lines 140-145: the SENT update settles.  A failed query throws into the
\* catch block of line 146, which issues the FAILED update.
SentUpdateSettled(call, dbOk) ==
    IF dbOk THEN Returned(call.invoice, "none", "true")
    ELSE [call EXCEPT !.pc = "updateFailed", !.err = "db"]

\* Lines 148-152: the FAILED update settles.  A failed query throws out of the
\* catch block, so the promise rejects.
FailedUpdateSettled(call, dbOk) ==
    IF dbOk THEN Returned(call.invoice, call.err, "false")
    ELSE Returned(call.invoice, call.err, "rejected")

\* One step of a suspended call: the outcomes the awaited operation can have,
\* each with the call as it continues and the table as the step leaves it.
CallSteps(call) ==
    IF call.pc = "post"
    THEN {[call |-> PostSettled(call, outcome), db |-> db,
           accepted |-> IF outcome = "ok" THEN CountAccepted(call.invoice) ELSE accepted,
           failures |-> failures] :
          outcome \in PostOutcomes}
    ELSE IF call.pc = "updateSent"
    THEN {[call |-> SentUpdateSettled(call, dbOk),
           db |-> IF dbOk THEN ApplyUpdate(db, call.invoice, UpdateSentRow(db[call.invoice])) ELSE db,
           accepted |-> accepted, failures |-> failures] :
          dbOk \in BOOLEAN}
    ELSE IF call.pc = "updateFailed"
    THEN {[call |-> FailedUpdateSettled(call, dbOk),
           db |-> IF dbOk THEN ApplyUpdate(db, call.invoice, UpdateFailedRow(db[call.invoice])) ELSE db,
           accepted |-> accepted,
           failures |-> IF dbOk /\ call.err \in PostOutcomes \ {"ok"} /\ db[call.invoice].exists
                        THEN CountFailed(call.invoice) ELSE failures] :
          dbOk \in BOOLEAN}
    ELSE {}

\* ------------------------------------------------------------ retry job
IdleSweep == [pc |-> "idle", rows |-> <<>>, call |-> NoCall]

\* Mutant: the WHERE clause without status = 'APPROVED'.
Eligible_AnyStatus(row) ==
    /\ row.exists
    /\ row.webhook_status \in {"FAILED", "PENDING"}
    /\ (row.webhook_attempts = NullInt \/ row.webhook_attempts < MaxAttempts)

\* Mutant: the WHERE clause with webhook_attempts <= 10.
Eligible_CapInclusive(row) ==
    /\ row.exists
    /\ row.status = "APPROVED"
    /\ row.webhook_status \in {"FAILED", "PENDING"}
    /\ (row.webhook_attempts = NullInt \/ row.webhook_attempts <= MaxAttempts)

\* Lines 164-166: the WHERE clause of the retry query.
Eligible(row) ==
    /\ row.exists
    /\ row.status = "APPROVED"
    /\ row.webhook_status \in {"FAILED", "PENDING"}
    /\ (row.webhook_attempts = NullInt \/ row.webhook_attempts < MaxAttempts)

RECURSIVE Ascending(_)
Ascending(S) ==
    IF S = {} THEN <<>>
    ELSE LET m == CHOOSE x \in S : \A y \in S : x <= y
         IN  <<m>> \o Ascending(S \ {m})

\* The orders a result set may come back in; larger sets than MaxPermuted are
\* taken in id order only.
Orderings(S) ==
    IF Cardinality(S) <= MaxPermuted
    THEN {f \in [1..Cardinality(S) -> S] :
            \A i, j \in 1..Cardinality(S) : i # j => f[i] # f[j]}
    ELSE {Ascending(S)}

\* Lines 162-168: the result sets the query may return.  There is no ORDER BY,
\* so any LIMIT-sized part of the matching rows may come back in any order.
RetryQuery(table) ==
    LET matching == {i \in DOMAIN table : Eligible(table[i])}
        n == Min(Cardinality(matching), BatchLimit)
    IN  UNION {Orderings(S) : S \in {T \in SUBSET matching : Cardinality(T) = n}}

\* Mutant: the loop does not move past the row it has just delivered.
LoopNext_KeepsHead(rows, file) ==
    IF rows = <<>> THEN IdleSweep
    ELSE [pc |-> "loop", rows |-> rows, call |-> sendWebhook(Head(rows), file)]

\* Lines 172-174: the for-of loop takes the next row and awaits sendWebhook.
LoopNext(rows, file) ==
    IF rows = <<>> THEN IdleSweep
    ELSE [pc |-> "loop", rows |-> Tail(rows), call |-> sendWebhook(Head(rows), file)]

\* ---------------------------------------------------------------- Init
InitProcess ==
    /\ WEBHOOK_URL \in BOOLEAN
    /\ db \in [InvoiceIds -> {AbsentRow, LegacyRow}]
    /\ hooks = [h \in HookIds |-> NoCall]
    /\ sweeps = [s \in SweepIds |-> IdleSweep]

Init ==
    /\ InitProcess
    /\ response = "off"
    /\ accepted = <<>>
    /\ failures = <<>>

\* ------------------------------------------------------------- handlers
\* POST /invoices (184-253): INSERT of a new row; the webhook columns are not
\* in the column list.
InsertRow(status) ==
    [exists |-> TRUE, status |-> status,
     webhook_status |-> NULL, webhook_attempts |-> NullInt]

CreateInvoice(id, status, dbOk) ==
    /\ ~db[id].exists
    /\ db' = IF dbOk THEN [db EXCEPT ![id] = InsertRow(status)] ELSE db
    /\ UNCHANGED <<WEBHOOK_URL, hooks, sweeps, response, accepted, failures>>

\* GET /invoices/pending (257-275): without a phone it answers an empty list,
\* otherwise it runs one SELECT.
GetPendingInvoices(phoneGiven, dbOk) ==
    /\ phoneGiven \in BOOLEAN /\ dbOk \in BOOLEAN
    /\ UNCHANGED vars

\* GET /invoices/:id/:phone (278-311): one SELECT; 404 when no row matches.
GetInvoice(id, phoneOk, dbOk) ==
    /\ id \in InvoiceIds
    /\ phoneOk \in BOOLEAN /\ dbOk \in BOOLEAN
    /\ UNCHANGED vars

\* Mutant: the SET list also puts the row back in the delivery queue.
PutRow_RequeuesDelivery(row, status) ==
    [row EXCEPT !.status = status, !.webhook_status = "PENDING", !.webhook_attempts = 0]

\* PUT /invoices/:id/:phone (314-388): the SET list of the UPDATE.
PutRow(row, status) == [row EXCEPT !.status = status]

UpdateInvoice(id, phoneOk, status, dbOk) ==
    /\ db[id].exists
    /\ db' = IF dbOk /\ phoneOk THEN [db EXCEPT ![id] = PutRow(db[id], status)] ELSE db
    /\ UNCHANGED <<WEBHOOK_URL, hooks, sweeps, response, accepted, failures>>

\* Mutant: the SET list without webhook_attempts = 0.
ApproveRow_KeepsAttempts(row) ==
    [row EXCEPT !.status = "APPROVED",
                !.webhook_status = "PENDING"]

\* POST /invoices/:id/:phone/approve (429-438): the SET list of the UPDATE.
ApproveRow(row) ==
    [row EXCEPT !.status = "APPROVED",
                !.webhook_status = "PENDING",
                !.webhook_attempts = 0]

\* Mutant: the condition of line 444 inverted.
TriggerHook_Inverted(h, row, file) ==
    IF ~WEBHOOK_URL THEN [hooks EXCEPT ![h] = sendWebhook(row, file)] ELSE hooks

\* Lines 444-448: the immediate trigger.
TriggerHook(h, row, file) ==
    IF WEBHOOK_URL THEN [hooks EXCEPT ![h] = sendWebhook(row, file)] ELSE hooks

\* Lines 395, 451 and 452-455: the status the handler answers with.  With no
\* matching row, row.id at 451 throws and the catch answers 500.
ApproveStatus(pdfGiven, matched, dbOk) ==
    IF ~pdfGiven THEN "400"
    ELSE IF ~dbOk \/ ~matched THEN "500"
    ELSE "200"

\* POST /invoices/:id/:phone/approve (391-456).  Without pdfBase64 it answers
\* 400 before anything else; a failed query is caught at 452 and answers 500.
\* The UPDATE matches a row only if the phone number in the path is the row's;
\* otherwise result.rows[0] is undefined.  Trigger and answer (444-451) run
\* without an await between them.  The row returned has the pdf_url the
\* handler has just built (410-427).
ApproveInvoice(id, h, pdfGiven, phoneOk, dbOk) ==
    /\ hooks[h].pc = "none"
    /\ LET matched == db[id].exists /\ phoneOk
       IN  /\ IF pdfGiven /\ dbOk
              THEN /\ db' = IF matched THEN [db EXCEPT ![id] = ApproveRow(db[id])] ELSE db
                   /\ \E file \in FileOutcomes \ {"nourl"} :
                        hooks' = TriggerHook(h, IF matched THEN id ELSE Undefined, file)
                   /\ accepted' = IF matched THEN ResetAccepted(id) ELSE accepted
                   /\ failures' = IF matched THEN ResetFailures(id) ELSE failures
              ELSE UNCHANGED <<db, hooks, accepted, failures>>
           /\ response' = Respond(ApproveStatus(pdfGiven, matched, dbOk))
    /\ UNCHANGED <<WEBHOOK_URL, sweeps>>

\* ------------------------------------------------- approval-time delivery
HookStep(h) ==
    /\ \E step \in CallSteps(hooks[h]) :
         /\ hooks' = [hooks EXCEPT ![h] = step.call]
         /\ db' = step.db
         /\ accepted' = step.accepted
         /\ failures' = step.failures
    /\ UNCHANGED <<WEBHOOK_URL, sweeps, response>>

\* Mutant: the .catch callback answers the request with an error.
HookSettled_AnswersError(h) ==
    /\ hooks[h].pc = "done"
    /\ hooks' = [hooks EXCEPT ![h] = NoCall]
    /\ response' = IF hooks[h].result = "rejected" THEN Respond("500") ELSE response
    /\ UNCHANGED <<WEBHOOK_URL, db, sweeps, accepted, failures>>

\* Line 445: the promise has settled; a rejection runs the .catch callback,
\* which only logs.
HookSettled(h) ==
    /\ hooks[h].pc = "done"
    /\ hooks' = [hooks EXCEPT ![h] = NoCall]
    /\ UNCHANGED <<WEBHOOK_URL, db, sweeps, response, accepted, failures>>

\* ------------------------------------------------------------ retry job
\* Mutant: the callback without the check of line 160.
SweepTick_NoGuard(s) ==
    /\ sweeps[s].pc = "idle"
    /\ sweeps' = [sweeps EXCEPT ![s].pc = "query"]
    /\ UNCHANGED <<WEBHOOK_URL, db, hooks, response, accepted, failures>>

\* Lines 158-168: the timer fires; without a destination the callback returns,
\* otherwise it issues the retry query.
SweepTick(s) ==
    /\ sweeps[s].pc = "idle"
    /\ sweeps' = IF WEBHOOK_URL THEN [sweeps EXCEPT ![s].pc = "query"] ELSE sweeps
    /\ UNCHANGED <<WEBHOOK_URL, db, hooks, response, accepted, failures>>

\* Lines 162-175: the query settles.  A failed query is caught at 176.
SweepQuery(s) ==
    /\ sweeps[s].pc = "query"
    /\ \E dbOk \in BOOLEAN :
         IF dbOk
         THEN \E rows \in RetryQuery(db), file \in FileOutcomes :
                sweeps' = [sweeps EXCEPT ![s] = LoopNext(rows, file)]
         ELSE sweeps' = [sweeps EXCEPT ![s] = IdleSweep]
    /\ UNCHANGED <<WEBHOOK_URL, db, hooks, response, accepted, failures>>

\* Line 173: the awaited sendWebhook call advances.
SweepDeliver(s) ==
    /\ sweeps[s].pc = "loop"
    /\ \E step \in CallSteps(sweeps[s].call) :
         /\ sweeps' = [sweeps EXCEPT ![s].call = step.call]
         /\ db' = step.db
         /\ accepted' = step.accepted
         /\ failures' = step.failures
    /\ UNCHANGED <<WEBHOOK_URL, hooks, response>>

\* Mutant: no catch around the loop; the rejection ends the callback chain.
SweepResume_Uncaught(s) ==
    /\ sweeps[s].pc = "loop"
    /\ sweeps[s].call.pc = "done"
    /\ \E file \in FileOutcomes :
         sweeps' = [sweeps EXCEPT ![s] =
                      IF sweeps[s].call.result = "rejected"
                      THEN [IdleSweep EXCEPT !.pc = "exit"]
                      ELSE LoopNext(sweeps[s].rows, file)]
    /\ UNCHANGED <<WEBHOOK_URL, db, hooks, response, accepted, failures>>

\* Lines 172-178: the await of line 173 resumes.  A value continues the loop;
\* a rejection is caught at 176 and ends the callback.
SweepResume(s) ==
    /\ sweeps[s].pc = "loop"
    /\ sweeps[s].call.pc = "done"
    /\ \E file \in FileOutcomes :
         sweeps' = [sweeps EXCEPT ![s] =
                      IF sweeps[s].call.result = "rejected" THEN IdleSweep
                      ELSE LoopNext(sweeps[s].rows, file)]
    /\ UNCHANGED <<WEBHOOK_URL, db, hooks, response, accepted, failures>>

\* ------------------------------------------------------------------ Next
Next ==
    \/ \E id \in InvoiceIds, status \in StatusValues, dbOk \in BOOLEAN :
         CreateInvoice(id, status, dbOk)
    \/ \E id \in InvoiceIds, phoneOk \in BOOLEAN, status \in StatusValues, dbOk \in BOOLEAN :
         UpdateInvoice(id, phoneOk, status, dbOk)
    \/ \E phoneGiven, dbOk \in BOOLEAN : GetPendingInvoices(phoneGiven, dbOk)
    \/ \E id \in InvoiceIds, phoneOk, dbOk \in BOOLEAN : GetInvoice(id, phoneOk, dbOk)
    \/ \E id \in InvoiceIds, h \in HookIds, pdfGiven, phoneOk, dbOk \in BOOLEAN :
         ApproveInvoice(id, h, pdfGiven, phoneOk, dbOk)
    \/ \E h \in HookIds : HookStep(h)
    \/ \E h \in HookIds : HookSettled(h)
    \/ \E s \in SweepIds : SweepTick(s)
    \/ \E s \in SweepIds : SweepQuery(s)
    \/ \E s \in SweepIds : SweepDeliver(s)
    \/ \E s \in SweepIds : SweepResume(s)

Spec == Init /\ [][Next]_vars

\* setInterval fires the timer again and again (158, 179), and the event loop
\* resumes a callback whose awaited promise has settled (173).  Nothing is
\* assumed about the database or the destination ever answering.
FairSpec ==
    /\ Spec
    /\ \A s \in SweepIds : WF_vars(SweepTick(s)) /\ WF_vars(SweepResume(s))

\* The same process with the answers of the approve handler recorded.
ResponseInit ==
    /\ InitProcess
    /\ response = "none"
    /\ accepted = <<>>
    /\ failures = <<>>

ResponseSpec == ResponseInit /\ [][Next]_vars

\* The same process with the destination counting what it accepts.
NotifyInit ==
    /\ InitProcess
    /\ response = "off"
    /\ accepted = [id \in InvoiceIds |-> 0]
    /\ failures = <<>>

NotifySpec == NotifyInit /\ [][Next]_vars

\* The same process with the recorded failures of posts counted.
CountInit ==
    /\ InitProcess
    /\ response = "off"
    /\ accepted = <<>>
    /\ failures = [id \in InvoiceIds |-> 0]

CountSpec == CountInit /\ [][Next]_vars

\* ------------------------------------------------------------ BatchSpec
\* The retry job alone on a table with more eligible rows than one query
\* returns: BatchInvoices invoices whose approval-time delivery failed.  The
\* timer fires while no callback is running and no outcome has been recorded.
BatchIds == 1..BatchInvoices

FailedOnceRow ==
    [exists |-> TRUE, status |-> "APPROVED",
     webhook_status |-> "FAILED", webhook_attempts |-> 1]

BatchTable == [id \in BatchIds |-> FailedOnceRow]

BatchInit ==
    /\ WEBHOOK_URL = TRUE
    /\ db = BatchTable
    /\ hooks = [h \in HookIds |-> NoCall]
    /\ sweeps = [s \in SweepIds |-> IdleSweep]
    /\ response = "off"
    /\ accepted = <<>>
    /\ failures = <<>>

BatchTick(s) ==
    /\ db = BatchTable
    /\ \A t \in SweepIds : sweeps[t].pc = "idle"
    /\ SweepTick(s)

BatchNext ==
    \/ \E s \in SweepIds : BatchTick(s)
    \/ \E s \in SweepIds : SweepQuery(s)
    \/ \E s \in SweepIds : SweepDeliver(s)
    \/ \E s \in SweepIds : SweepResume(s)

BatchSpec == BatchInit /\ [][BatchNext]_vars

\* ------------------------------------------------------------- PairSpec
\* The retry job with overlapping callbacks on a table of PairInvoices
\* invoices whose approval-time delivery failed, while the page saves
\* invoices as drafts.  The timer fires as long as no invoice has failed more
\* than PairRetries times.
PairIds == 1..PairInvoices

PairTable == [id \in PairIds |-> FailedOnceRow]

PairInit ==
    /\ WEBHOOK_URL = TRUE
    /\ db = PairTable
    /\ hooks = [h \in HookIds |-> NoCall]
    /\ sweeps = [s \in SweepIds |-> IdleSweep]
    /\ response = "off"
    /\ accepted = <<>>
    /\ failures = <<>>

PairTick(s) ==
    /\ \A id \in PairIds : COALESCE(db[id].webhook_attempts, 0) <= PairRetries
    /\ SweepTick(s)

\* The page's save (part_000, handleSave): PUT with status "DRAFT".
SaveDraft(id) ==
    /\ db[id].status # "DRAFT"
    /\ UpdateInvoice(id, TRUE, "DRAFT", TRUE)

PairNext ==
    \/ \E id \in PairIds : SaveDraft(id)
    \/ \E s \in SweepIds : PairTick(s)
    \/ \E s \in SweepIds : SweepQuery(s)
    \/ \E s \in SweepIds : SweepDeliver(s)
    \/ \E s \in SweepIds : SweepResume(s)

PairSpec == PairInit /\ [][PairNext]_vars

\* ------------------------------------------------------------ DrainSpec
\* The retry job left to itself: a destination is configured, nobody
\* approves or edits, the retry query and every outcome update succeed.  The
\* timer keeps firing, settled awaits resume and the database answers; no
\* timeout is passed to axios.post (129-138), so nothing makes a post settle.
\* When every callback of SweepIds is suspended at a post that never settles,
\* the process is suspended there too: the callbacks the timer would start
\* beyond MaxSweeps select the same rows and await the same destination, and
\* none of them records an outcome.
DrainInit ==
    /\ WEBHOOK_URL = TRUE
    /\ db \in [InvoiceIds -> {LegacyRow, FailedOnceRow}]
    /\ hooks = [h \in HookIds |-> NoCall]
    /\ sweeps = [s \in SweepIds |-> IdleSweep]
    /\ response = "off"
    /\ accepted = <<>>
    /\ failures = <<>>

\* The retry query succeeds: the callback ends only on an empty result.
DrainQuery(s) ==
    /\ SweepQuery(s)
    /\ sweeps'[s].pc = "idle" => RetryQuery(db) = {<<>>}

\* The post settles either way.
DrainPost(s) ==
    /\ sweeps[s].call.pc = "post"
    /\ SweepDeliver(s)

\* The outcome update succeeds.
DrainRecord(s) ==
    /\ sweeps[s].call.pc \in {"updateSent", "updateFailed"}
    /\ SweepDeliver(s)
    /\ sweeps'[s].call.pc = "done"
    /\ sweeps'[s].call.result # "rejected"

DrainNext ==
    \/ \E s \in SweepIds : SweepTick(s)
    \/ \E s \in SweepIds : DrainQuery(s)
    \/ \E s \in SweepIds : DrainPost(s)
    \/ \E s \in SweepIds : DrainRecord(s)
    \/ \E s \in SweepIds : SweepResume(s)

DrainSpec ==
    /\ DrainInit
    /\ [][DrainNext]_vars
    /\ \A s \in SweepIds :
         /\ WF_vars(SweepTick(s))
         /\ WF_vars(DrainQuery(s))
         /\ WF_vars(DrainRecord(s))
         /\ WF_vars(SweepResume(s))

\* ================================================================ claims
\* A sendWebhook call before and after the step, for every caller.
CallPairs ==
    {<<hooks[h], hooks'[h]>> : h \in HookIds}
        \cup {<<sweeps[s].call, sweeps'[s].call>> : s \in SweepIds}

\* The call is suspended in p[1] and its promise has settled in p[2].
Settles(p) == p[1].pc \in {"updateSent", "updateFailed"} /\ p[2].pc = "done"

\* The outbound call of the suspended call succeeded, respectively failed.
PostSucceeded(call) ==
    call.pc = "updateSent" \/ (call.pc = "updateFailed" /\ call.err = "db")

PostFailed(call) ==
    call.pc = "updateFailed" /\ call.err \in {"transport", "serialization"}

DeliveryTransitions ==
    {<<"PENDING", "SENT">>, <<"PENDING", "FAILED">>,
     <<"FAILED", "SENT">>, <<"FAILED", "FAILED">>}

\* C1: every change a delivery outcome makes to an invoice's webhook_status is
\* one of PENDING->SENT, PENDING->FAILED, FAILED->SENT, FAILED->FAILED; no
\* delivery outcome moves an invoice out of SENT.
C1_OnlyDeliveryTransitions ==
    [][\A p \in CallPairs :
          Settles(p) =>
            LET old == db[p[1].invoice].webhook_status
                new == db'[p[1].invoice].webhook_status
            IN  old # new => <<old, new>> \in DeliveryTransitions]_vars

\* C2: a delivery attempt whose outbound call succeeded never records a
\* failure, whatever the update that records the outcome does: when the call
\* settles, webhook_attempts is as it was and webhook_status is SENT (or, if no
\* update could be applied at all, as it was).
C2_SuccessRecordsSent ==
    [][\A p \in CallPairs :
          (PostSucceeded(p[1]) /\ p[2].pc = "done") =>
            /\ db'[p[1].invoice].webhook_attempts = db[p[1].invoice].webhook_attempts
            /\ \/ db'[p[1].invoice].webhook_status = "SENT"
               \/ db'[p[1].invoice] = db[p[1].invoice]]_vars

\* C3: the outcome a delivery attempt records after a failed outbound call is
\* webhook_status = FAILED and webhook_attempts = prior value + 1, NULL
\* counting as 0; the only other way such an attempt ends is that the update
\* itself fails, and then the row is as it was.
C3_FailureRecordsFailedPlusOne ==
    [][\A p \in CallPairs :
          (PostFailed(p[1]) /\ p[2].pc = "done") =>
            LET old == db[p[1].invoice]
                new == db'[p[1].invoice]
            IN  IF p[2].result = "false"
                THEN /\ new.webhook_status = "FAILED"
                     /\ new.webhook_attempts =
                          (IF old.webhook_attempts = NullInt THEN 0
                           ELSE old.webhook_attempts) + 1
                ELSE p[2].result = "rejected" /\ new = old]_vars

\* A sweep's failed attempt has just been recorded on an invoice whose
\* approval-time attempt had failed before: FAILED with two attempts.
C3_Witness ==
    \E s \in SweepIds :
        /\ sweeps[s].call.pc = "done"
        /\ sweeps[s].call.result = "false"
        /\ sweeps[s].call.err = "transport"
        /\ db[sweeps[s].call.invoice].webhook_status = "FAILED"
        /\ db[sweeps[s].call.invoice].webhook_attempts = 2

\* C4: in every reachable state every invoice has webhook_attempts <= 10.
C4_AttemptsWithinCap ==
    \A id \in InvoiceIds : db[id].webhook_attempts <= MaxAttempts

\* The rows a retry callback holds as candidates.
Candidates(sweep) ==
    IF sweep.pc = "loop"
    THEN {sweep.call.invoice} \cup {sweep.rows[k] : k \in 1..Len(sweep.rows)}
    ELSE {}

\* The retry query of callback s settles in this step, with a result.
QueryRuns(s) == sweeps[s].pc = "query" /\ sweeps'[s].pc # "query"

\* C5: a retry query never selects an invoice whose status is not APPROVED at
\* the moment it runs, whatever its webhook_status and webhook_attempts.
C5_SweepSelectsOnlyApproved ==
    [][\A s \in SweepIds :
          QueryRuns(s) =>
            \A id \in Candidates(sweeps'[s]) : db[id].status = "APPROVED"]_vars

\* A retry query is about to run against an invoice that is not APPROVED but
\* has a retryable webhook_status and attempts below the cap.
C5_Witness ==
    \E s \in SweepIds, id \in InvoiceIds :
        /\ sweeps[s].pc = "query"
        /\ db[id].exists
        /\ db[id].status # "APPROVED"
        /\ db[id].webhook_status \in {"FAILED", "PENDING"}
        /\ db[id].webhook_attempts < MaxAttempts

\* C6: a retry query never selects an invoice whose webhook_attempts is 10 or
\* more at the moment it runs, whatever its webhook_status.
C6_SweepSkipsExhausted ==
    [][\A s \in SweepIds :
          QueryRuns(s) =>
            \A id \in Candidates(sweeps'[s]) : db[id].webhook_attempts < MaxAttempts]_vars

\* A retry query is about to run against an APPROVED, FAILED invoice whose
\* attempts have reached the cap.
C6_Witness ==
    \E s \in SweepIds, id \in InvoiceIds :
        /\ sweeps[s].pc = "query"
        /\ db[id].status = "APPROVED"
        /\ db[id].webhook_status = "FAILED"
        /\ db[id].webhook_attempts >= MaxAttempts

\* C7: the approve operation on an existing invoice sets status = APPROVED,
\* webhook_status = PENDING and webhook_attempts = 0 in one update, for every
\* prior value of the two delivery fields.
C7_ApproveResets ==
    [][\A id \in InvoiceIds, h \in HookIds :
          (db[id].exists /\ ApproveInvoice(id, h, TRUE, TRUE, TRUE)) =>
            /\ db'[id].status = "APPROVED"
            /\ db'[id].webhook_status = "PENDING"
            /\ db'[id].webhook_attempts = 0]_vars

\* The approve handler has reset an invoice and started its immediate
\* delivery while a retry callback still holds the invoice from before.
C7_Witness ==
    \E h \in HookIds, s \in SweepIds :
        /\ hooks[h].pc = "post"
        /\ sweeps[s].call.pc = "updateFailed"
        /\ sweeps[s].call.invoice = hooks[h].invoice
        /\ db[hooks[h].invoice].status = "APPROVED"
        /\ db[hooks[h].invoice].webhook_status = "PENDING"
        /\ db[hooks[h].invoice].webhook_attempts = 0

\* C8: every step that moves an invoice's status into APPROVED sets
\* webhook_status = PENDING and webhook_attempts = 0 in the same step.
C8_ApprovedIsInitialised ==
    [][\A id \in InvoiceIds :
          (db[id].status # "APPROVED" /\ db'[id].status = "APPROVED") =>
            /\ db'[id].webhook_status = "PENDING"
            /\ db'[id].webhook_attempts = 0]_vars

\* C9: without a destination no outbound call is in flight, no retry query is
\* issued, no outcome update is pending, and the delivery fields of a row are
\* as the insert or the approve reset left them.
C9_NoDestinationNoDelivery ==
    ~WEBHOOK_URL =>
        /\ \A h \in HookIds : hooks[h].pc \notin {"post", "updateSent", "updateFailed"}
        /\ \A s \in SweepIds : sweeps[s] = IdleSweep
        /\ \A id \in InvoiceIds :
             /\ db[id].webhook_status \in {NULL, "PENDING"}
             /\ db[id].webhook_attempts \in {NullInt, 0}

\* Without a destination an invoice has been approved: PENDING with 0 attempts.
C9_Witness ==
    /\ ~WEBHOOK_URL
    /\ \E id \in InvoiceIds :
         /\ db[id].status = "APPROVED"
         /\ db[id].webhook_status = "PENDING"
         /\ db[id].webhook_attempts = 0

\* C10: a delivery attempt for an invoice never rejects: whatever the outbound
\* call and the outcome update do, sendWebhook returns true or false.
C10_SendWebhookNeverRejects ==
    /\ \A h \in HookIds :
         hooks[h].invoice # Undefined => hooks[h].result # "rejected"
    /\ \A s \in SweepIds :
         sweeps[s].call.invoice # Undefined => sweeps[s].call.result # "rejected"

\* The rows a table holds that the retry query matches.
Matching(table) == {id \in DOMAIN table : Eligible(table[id])}

\* The callback of s ends in this step.
SweepEnds(s) == sweeps[s].pc = "loop" /\ sweeps'[s].pc = "idle"

\* C11: one sweep attempts at most 10 invoices; with more than 10 eligible it
\* selects exactly 10 and attempts each of them before it ends, and every
\* invoice it did not attempt is as it was and still eligible.
C11_SweepAttemptsExactlyBatch ==
    [][/\ \A s \in SweepIds :
            QueryRuns(s) /\ Cardinality(Matching(db)) > BatchLimit =>
              \/ sweeps'[s] = IdleSweep
              \/ Cardinality(Candidates(sweeps'[s])) = BatchLimit
       /\ \A s \in SweepIds : SweepEnds(s) => sweeps[s].rows = <<>>
       /\ Cardinality({id \in DOMAIN db : db'[id] # BatchTable[id]}) <= BatchLimit
       /\ \A id \in DOMAIN db : db'[id] = BatchTable[id] => Eligible(db'[id])]_vars

\* webhook_attempts as a number, NULL counting as 0.
AttemptsOf(row) == IF row.webhook_attempts = NullInt THEN 0 ELSE row.webhook_attempts

\* C12: webhook_attempts of an invoice never decreases, except in an approve
\* step, which resets it to 0.
C12_AttemptsNeverDecrease ==
    [][\A id \in InvoiceIds :
          AttemptsOf(db'[id]) < AttemptsOf(db[id]) =>
            /\ \E h \in HookIds : ApproveInvoice(id, h, TRUE, TRUE, TRUE)
            /\ db'[id].webhook_attempts = 0]_vars

\* An approve has reset the counter of an invoice for which a retry callback
\* had just recorded a failure: the callback still holds the settled call.
C12_Witness ==
    \E h \in HookIds, s \in SweepIds :
        /\ hooks[h].pc = "post"
        /\ sweeps[s].call.pc = "done"
        /\ sweeps[s].call.result = "false"
        /\ sweeps[s].call.invoice = hooks[h].invoice
        /\ db[hooks[h].invoice].webhook_attempts = 0

\* The outbound calls in flight: sendWebhook calls awaiting axios.post.
PostsInFlight(hk, sw) ==
    Cardinality({h \in HookIds : hk[h].pc = "post"})
        + Cardinality({s \in SweepIds : sw[s].call.pc = "post"})

\* C13: with a destination, an approve whose UPDATE matched the invoice starts
\* exactly one outbound call, for that invoice, in the step that follows the
\* committed reset to APPROVED / PENDING / 0; an approve that matched no row
\* starts none and changes no row.
C13_ApproveStartsOneDelivery ==
    [][\A id \in InvoiceIds, h \in HookIds, phoneOk \in BOOLEAN :
          (WEBHOOK_URL /\ ApproveInvoice(id, h, TRUE, phoneOk, TRUE)) =>
            IF db[id].exists /\ phoneOk
            THEN /\ hooks'[h].pc = "post"
                 /\ hooks'[h].invoice = id
                 /\ PostsInFlight(hooks', sweeps') = PostsInFlight(hooks, sweeps) + 1
                 /\ db'[id].status = "APPROVED"
                 /\ db'[id].webhook_status = "PENDING"
                 /\ db'[id].webhook_attempts = 0
            ELSE /\ PostsInFlight(hooks', sweeps') = PostsInFlight(hooks, sweeps)
                 /\ db' = db]_vars

\* The immediate delivery of a fresh approval is the only call in flight.
C13_Witness ==
    /\ WEBHOOK_URL
    /\ \A s \in SweepIds : sweeps[s] = IdleSweep
    /\ \E h \in HookIds :
         /\ hooks[h].pc = "post"
         /\ db[hooks[h].invoice].status = "APPROVED"
         /\ db[hooks[h].invoice].webhook_status = "PENDING"
         /\ db[hooks[h].invoice].webhook_attempts = 0

\* C14: the approve operation answers without waiting for the delivery it
\* started and whatever that delivery does.  A matched approve step answers 200
\* in the step that starts the call, which is then still awaiting axios.post;
\* and no step of the approval-time call (post settling either way, outcome
\* update settling or failing, the promise settling or rejecting) changes the
\* answer.
C14_ApproveResponseIgnoresDelivery ==
    [][/\ \A id \in InvoiceIds, h \in HookIds :
            (ApproveInvoice(id, h, TRUE, TRUE, TRUE) /\ db[id].exists) =>
                /\ response' = "200"
                /\ WEBHOOK_URL => hooks'[h].pc = "post"
       /\ \A h \in HookIds :
            (hooks[h].pc # "none" /\ hooks'[h] # hooks[h]) => response' = response]_vars

\* The answer was 200 and the delivery it started has since rejected: the
\* post failed and so did the update recording the failure.
C14_Witness ==
    /\ response = "200"
    /\ \E h \in HookIds :
         /\ hooks[h].pc = "done"
         /\ hooks[h].invoice \in InvoiceIds
         /\ hooks[h].result = "rejected"
         /\ hooks[h].err \in {"transport", "serialization"}

\* C15: between one approval of an invoice and the next, the destination
\* accepts at most two notifications for it (the intended one and at most one
\* duplicate), however the approval-time call and the retry callbacks
\* interleave.
C15_AtMostOneDuplicate ==
    \A id \in DOMAIN accepted : accepted[id] <= 2

\* C16: an invoice recorded FAILED with webhook_attempts at the cap keeps its
\* webhook_status and its webhook_attempts in every step that is not a new
\* approval of that invoice.
C16_ExhaustedStaysFailed ==
    [][\A id \in InvoiceIds :
          (/\ db[id].webhook_status = "FAILED"
           /\ db[id].webhook_attempts >= MaxAttempts
           /\ ~ \E h \in HookIds : ApproveInvoice(id, h, TRUE, TRUE, TRUE)) =>
              /\ db'[id].webhook_status = "FAILED"
              /\ db'[id].webhook_attempts = db[id].webhook_attempts]_vars

\* A retry callback holds an exception that escaped a delivery attempt.
SweepCaught(s) ==
    /\ sweeps[s].pc = "loop"
    /\ sweeps[s].call.pc = "done"
    /\ sweeps[s].call.result = "rejected"

\* C17: an exception in a retry callback does not stop the retry job.  With
\* a destination configured, a callback that holds a rejected delivery, or
\* that has ended (as it does when its query fails), is followed by one that
\* issues the retry query again, from where rows are selected and delivered
\* as in any sweep.
C17_SweepSurvivesException ==
    \A s \in SweepIds :
        (WEBHOOK_URL /\ (SweepCaught(s) \/ sweeps[s].pc = "idle")) ~> (sweeps[s].pc = "query")

\* A callback is at its query again while the delivery of the other one has
\* just been rejected.
C17_Witness ==
    \E s, t \in SweepIds :
        /\ s # t
        /\ SweepCaught(s)
        /\ sweeps[t].pc = "query"

\* The approval-time call of slot h records the failure of its post in this
\* step: the post failed, and the FAILED update completes.
TriggerFailureRecorded(h) ==
    /\ hooks[h].pc = "updateFailed"
    /\ hooks[h].err \in {"transport", "serialization"}
    /\ hooks'[h].pc = "done"
    /\ hooks'[h].result = "false"

\* C18: when the delivery started by an approval fails, the invoice is left
\* FAILED with webhook_attempts = 1, from where the retry job is to select it.
C18_FailedTriggerLeavesFailedOnce ==
    [][\A h \in HookIds :
          TriggerFailureRecorded(h) =>
              /\ db'[hooks[h].invoice].webhook_status = "FAILED"
              /\ db'[hooks[h].invoice].webhook_attempts = 1]_vars

\* A step of the create, update or read handlers.
PlainRequest ==
    \/ \E id \in InvoiceIds, status \in StatusValues, dbOk \in BOOLEAN :
         CreateInvoice(id, status, dbOk)
    \/ \E id \in InvoiceIds, phoneOk \in BOOLEAN, status \in StatusValues, dbOk \in BOOLEAN :
         UpdateInvoice(id, phoneOk, status, dbOk)
    \/ \E phoneGiven, dbOk \in BOOLEAN : GetPendingInvoices(phoneGiven, dbOk)
    \/ \E id \in InvoiceIds, phoneOk, dbOk \in BOOLEAN : GetInvoice(id, phoneOk, dbOk)

\* C19: POST /invoices, PUT /invoices/:id/:phone and the GET handlers leave
\* webhook_status and webhook_attempts of every invoice as they were.
C19_PlainRequestsKeepDeliveryFields ==
    [][PlainRequest =>
         \A id \in InvoiceIds :
            /\ db'[id].webhook_status = db[id].webhook_status
            /\ db'[id].webhook_attempts = db[id].webhook_attempts]_vars

\* An invoice whose delivery had failed has been saved as a draft by PUT.
C19_Witness ==
    \E id \in InvoiceIds :
        /\ db[id].status = "DRAFT"
        /\ db[id].webhook_status = "FAILED"
        /\ db[id].webhook_attempts >= 1

\* The PDF of the invoice could not be resolved: pdf_url names a file that is
\* not there or cannot be read.
Unresolved == {"missing", "unreadable"}

\* C20: an unresolved PDF never fails a delivery attempt.  With a destination
\* configured, sendWebhook given such an invoice goes on to the post, with
\* pdf_base64 null in the body; and that post settles, towards the SENT or the
\* FAILED update, exactly as the post of a call that read its file, changing
\* no row by itself.
C20_UnresolvedPdfStillDelivers ==
    [][/\ \A id \in InvoiceIds, file \in Unresolved :
            WEBHOOK_URL =>
                /\ sendWebhook(id, file).pc = "post"
                /\ sendWebhook(id, file).pdf_base64 = NULL
       /\ \A pair \in CallPairs :
            (pair[1].pc = "post" /\ pair[1].file \in Unresolved /\ pair[2] # pair[1]) =>
                /\ \E outcome \in PostOutcomes :
                     pair[2] = PostSettled(sendWebhook(pair[1].invoice, "read"), outcome)
                /\ db' = db]_vars

\* A post is in flight for an invoice whose PDF could not be read; its body
\* carries no content.
C20_Witness ==
    \E h \in HookIds :
        /\ hooks[h].pc = "post"
        /\ hooks[h].file = "unreadable"
        /\ hooks[h].pdf_base64 = NULL

\* The await of line 173 resumes in callback s with candidates still to go.
ResumesWithRest(s) ==
    /\ sweeps[s].pc = "loop"
    /\ sweeps[s].call.pc = "done"
    /\ sweeps[s].rows # <<>>
    /\ sweeps'[s] # sweeps[s]

\* C21: a failure to record an outcome inside a sweep is not retried there and
\* costs the other candidates nothing.  A call whose FAILED update fails issues
\* no further update, and whenever the callback resumes after a call, however
\* that call ended, it goes on to the delivery of the next candidate.
C21_RecordingFailureKeepsBatch ==
    [][\A s \in SweepIds :
          /\ (sweeps[s].call.pc = "updateFailed" /\ sweeps'[s].call # sweeps[s].call) =>
                sweeps'[s].call.pc = "done"
          /\ ResumesWithRest(s) =>
                /\ sweeps'[s].pc = "loop"
                /\ sweeps'[s].call.invoice = Head(sweeps[s].rows)
                /\ sweeps'[s].rows = Tail(sweeps[s].rows)]_vars

\* A sendWebhook call leaves one of its two outcome updates in this step.
Recording(pair) ==
    /\ pair[1].pc \in {"updateSent", "updateFailed"}
    /\ pair[2] # pair[1]

\* C22: recording a delivery outcome for an invoice touches nothing but that
\* invoice's webhook_status and webhook_attempts: its status stays, the row
\* stays, and every other row is left exactly as it was, whatever other calls
\* are suspended at their own updates.
C22_RecordingTouchesOneRow ==
    [][\A pair \in CallPairs :
          Recording(pair) =>
              \A id \in DOMAIN db :
                  IF id = pair[1].invoice
                  THEN /\ db'[id].exists = db[id].exists
                       /\ db'[id].status = db[id].status
                  ELSE db'[id] = db[id]]_vars

\* One callback has recorded a second failure for an invoice while the other
\* callback is suspended at the update for another invoice, whose row is as
\* it was.
C22_Witness ==
    \E s, t \in SweepIds :
        /\ sweeps[s].call.pc = "done"
        /\ sweeps[s].call.result = "false"
        /\ sweeps[t].call.pc \in {"updateSent", "updateFailed"}
        /\ sweeps[t].call.invoice # sweeps[s].call.invoice
        /\ db[sweeps[s].call.invoice].webhook_attempts = 2
        /\ db[sweeps[t].call.invoice] = FailedOnceRow

\* The invoices callback s has in hand: the one being delivered, then the
\* candidates still to go.
InHand(sweep) == <<sweep.call.invoice>> \o sweep.rows

\* C23: a sweep handles its candidates strictly one after another.  No
\* invoice is twice among the one being delivered and those still to go; a
\* step inside the loop either advances the one call in flight, or, once that
\* call has completed (its outcome update included), starts the call for the
\* head of the remaining candidates and drops it from them.
C23_SweepIsSequential ==
    [][\A s \in SweepIds :
          (sweeps'[s].pc = "loop" /\ sweeps'[s] # sweeps[s]) =>
              /\ \A i, j \in DOMAIN InHand(sweeps'[s]) :
                    i # j => InHand(sweeps'[s])[i] # InHand(sweeps'[s])[j]
              /\ sweeps[s].pc = "loop" =>
                    \/ /\ sweeps'[s].rows = sweeps[s].rows
                       /\ sweeps'[s].call.invoice = sweeps[s].call.invoice
                       /\ sweeps[s].call.pc # "done"
                    \/ /\ sweeps[s].call.pc = "done"
                       /\ sweeps[s].rows # <<>>
                       /\ sweeps'[s].rows = Tail(sweeps[s].rows)
                       /\ sweeps'[s].call.invoice = Head(sweeps[s].rows)]_vars

\* A callback is delivering its third candidate, the first two recorded.
C23_Witness ==
    \E s \in SweepIds :
        /\ sweeps[s].pc = "loop"
        /\ sweeps[s].call.pc = "post"
        /\ sweeps[s].call.invoice = 3
        /\ Len(sweeps[s].rows) = BatchLimit - 3
        /\ db[1] # BatchTable[1]
        /\ db[2] # BatchTable[2]

\* C24: at most one sweep is in progress.  While a callback of the retry job
\* is inside its loop, awaiting a delivery, no other callback has been
\* started by the timer.
C24_OneSweepAtATime ==
    [][\A s, t \in SweepIds :
          (s # t /\ sweeps[s].pc = "loop" /\ sweeps[t].pc = "idle") =>
              sweeps'[t].pc = "idle"]_vars

\* C25: a notification goes out only for an invoice that is APPROVED when it
\* is sent.  Whenever a sendWebhook call issues its post, the row of its
\* invoice has status APPROVED.
C25_NotifiesOnlyApproved ==
    [][\A pair \in CallPairs :
          (pair[2].pc = "post" /\ pair[2] # pair[1]) =>
              db'[pair[2].invoice].status = "APPROVED"]_vars

\* C26: no failure is lost from the count.  In every state the
\* webhook_attempts of an invoice (an unset counter reading as 0) is the
\* number of failed posts for it whose FAILED update was applied since the
\* invoice was last approved.
C26_AttemptsCountFailures ==
    \A id \in DOMAIN failures :
        COALESCE(db[id].webhook_attempts, 0) = failures[id]

\* C27: automatic retrying terminates.  With a destination configured, the
\* timer firing, queries and outcome updates succeeding and nobody approving
\* or editing, from some point on no invoice is one the retry query selects:
\* each is SENT, or has webhook_attempts at the cap, or was never APPROVED.
C27_RetryingTerminates ==
    <>[](\A id \in DOMAIN db : ~Eligible(db[id]))

====
